---- MODULE Spec2Model ----
(***************************************************************************)
(* Bottle Tracker data API (src/workers/index.js): the stored CSV table,   *)
(* the request handlers /data, /data/filemeta and /insights, and the pure  *)
(* pipeline analyzeBottleFeeds / calculateDailyTrends they call; and the   *)
(* upload worker (src/csv_upload_worker_code.md) that stores a CSV file in *)
(* the same bucket.                                                        *)
(*                                                                         *)
(* Text.  A JavaScript string is a sequence of pieces.  Separators and     *)
(* digits are single characters (",", "\"", " ", ":", "-", "/", "0".."9"); *)
(* a run of letters is one piece ("Bottle", "ml", "Start").  No letter     *)
(* piece contains a separator or a digit, and "Bottle" occurs in a text    *)
(* only as the piece "Bottle".  csvText is held as the list of its lines,  *)
(* which is what csvText.split("\n") returns (never an empty list).        *)
(*                                                                         *)
(* Numbers.  Every value the code rounds to one decimal with               *)
(* Math.round(x * 10) / 10 is held as the integer number of tenths,        *)
(* Math.round(x * 10); arithmetic on finite values is exact.  NaN and      *)
(* Infinity are the values of those names below: a number too large for    *)
(* the host's number type is Infinity, and sums, products and quotients    *)
(* of Infinity follow the host's arithmetic.                               *)
(***************************************************************************)
EXTENDS Integers, Sequences, FiniteSets

NaN == -1000000

Infinity == 1000000000

\* a + b and a * k (k > 0) of the host, for a, b >= 0
Plus(a, b) == IF a = Infinity \/ b = Infinity THEN Infinity ELSE a + b

Times(a, k) == IF a = Infinity THEN Infinity ELSE a * k

Null == <<>>

-----------------------------------------------------------------------------
(* String primitives of the host language, as the code uses them.          *)

DigitChars == <<"0", "1", "2", "3", "4", "5", "6", "7", "8", "9">>

IsDigit(c) == \E i \in 1..10 : DigitChars[i] = c

DigitVal(c) == (CHOOSE i \in 1..10 : DigitChars[i] = c) - 1

RECURSIVE TrimLeft(_)
TrimLeft(s) == IF s # <<>> /\ Head(s) = " " THEN TrimLeft(Tail(s)) ELSE s

RECURSIVE TrimRight(_)
TrimRight(s) ==
  IF s # <<>> /\ s[Len(s)] = " " THEN TrimRight(SubSeq(s, 1, Len(s) - 1)) ELSE s

\* String.prototype.trim
trim(s) == TrimRight(TrimLeft(s))

\* .replace(/^"|"$/g, ""): one quote at the very start and one at the very end
StripQuotes(s) ==
  LET a == IF s # <<>> /\ Head(s) = "\"" THEN Tail(s) ELSE s
  IN  IF a # <<>> /\ a[Len(a)] = "\"" THEN SubSeq(a, 1, Len(a) - 1) ELSE a

IndexOf(s, c) ==
  IF \E i \in 1..Len(s) : s[i] = c
  THEN CHOOSE i \in 1..Len(s) : s[i] = c /\ \A j \in 1..(i - 1) : s[j] # c
  ELSE 0

\* String.prototype.split(sep) for a one-character separator
RECURSIVE split(_, _)
split(s, sep) ==
  LET i == IndexOf(s, sep)
  IN  IF i = 0 THEN <<s>>
      ELSE <<SubSeq(s, 1, i - 1)>> \o split(SubSeq(s, i + 1, Len(s)), sep)

\* .includes("Bottle")
IncludesBottle(s) == \E i \in 1..Len(s) : s[i] = "Bottle"

\* the digits s[i..] starts with, as a number; acc is the value so far
RECURSIVE DigitRun(_, _, _)
DigitRun(s, i, acc) ==
  IF i <= Len(s) /\ IsDigit(s[i]) THEN DigitRun(s, i + 1, acc * 10 + DigitVal(s[i]))
  ELSE acc

\* the least member of a set of indexes, or otherwise when it has none
FirstOf(set, otherwise) ==
  IF set = {} THEN otherwise ELSE CHOOSE i \in set : \A j \in set : i <= j

\* how many digits s[i..] starts with, zeros at the front not counted
Significant(s, i) ==
  LET stop  == FirstOf({j \in i..Len(s) : ~IsDigit(s[j])}, Len(s) + 1)
      start == FirstOf({j \in i..(stop - 1) : s[j] # "0"}, stop)
  IN  stop - start

\* the longest run of digits that can still write a finite number: one of
\* more significant digits is at least 10^309, above the largest number
MaxFiniteDigits == 309

\* the number the digits s[i..] starts with become
DigitsToNumber(s, i) ==
  IF Significant(s, i) > MaxFiniteDigits THEN Infinity ELSE DigitRun(s, i, 0)

\* parseInt(s, 10): leading blanks, an optional sign, then the leading digits
parseInt(s) ==
  LET t    == TrimLeft(s)
      neg  == t # <<>> /\ Head(t) = "-"
      body == IF t # <<>> /\ Head(t) \in {"-", "+"} THEN Tail(t) ELSE t
  IN  IF body = <<>> \/ ~IsDigit(Head(body)) THEN NaN
      ELSE IF neg THEN 0 - DigitRun(body, 1, 0) ELSE DigitsToNumber(body, 1)

\* values[endConditionIndex].match(/(\d+)/) then parseInt(match[1], 10);
\* 0 when the field is empty or has no digit
ExtractAmount(s) ==
  LET first == IF \E i \in 1..Len(s) : IsDigit(s[i])
               THEN CHOOSE i \in 1..Len(s) :
                      IsDigit(s[i]) /\ \A j \in 1..(i - 1) : ~IsDigit(s[j])
               ELSE 0
  IN  IF first = 0 THEN 0 ELSE DigitsToNumber(s, first)

-----------------------------------------------------------------------------
(* parseCSVLine *)

CsvField(line, from, to) == trim(StripQuotes(SubSeq(line, from, to)))

\* the next position from i that holds a quote or a comma (past the end when
\* none does): the loop changes nothing at the positions before it
NextMark(line, i) ==
  FirstOf({j \in i..Len(line) : line[j] \in {"\"", ","}}, Len(line) + 1)

RECURSIVE CsvScan(_, _, _, _)
CsvScan(line, i, startPos, inQuotes) ==
  IF i > Len(line) THEN <<CsvField(line, startPos, Len(line))>>
  ELSE IF line[i] = "\"" THEN CsvScan(line, i + 1, startPos, ~inQuotes)
  ELSE IF line[i] = "," /\ ~inQuotes
       THEN <<CsvField(line, startPos, i - 1)>> \o CsvScan(line, i + 1, i + 1, inQuotes)
  ELSE CsvScan(line, NextMark(line, i + 1), startPos, inQuotes)

parseCSVLine(line) ==
  IF trim(line) = <<>> THEN <<>> ELSE CsvScan(line, 1, 1, FALSE)

-----------------------------------------------------------------------------
(* new Date(string).  The forms the runtime's parser is modelled for:       *)
(* "YYYY-MM-DD" and "M/D/YYYY" dates, optionally followed (in the feed      *)
(* sort) by " H:MM" with H <= 23; every other text is an Invalid Date,      *)
(* whose time value is NaN.  The Workers runtime runs in UTC, so the        *)
(* date-only and the date-time forms share one time line.  Values are       *)
(* minutes; a day of month up to 31 is accepted and carried over as the     *)
(* runtime does ("2023-02-30" is March 2).  Years are not leap years.       *)

AllDigits(s) == s # <<>> /\ \A i \in 1..Len(s) : IsDigit(s[i])

DaysBeforeMonth == <<0, 31, 59, 90, 120, 151, 181, 212, 243, 273, 304, 334>>

MakeDay(y, m, d) ==
  IF m \in 1..12 /\ d \in 1..31 THEN y * 365 + DaysBeforeMonth[m] + d ELSE NaN

ParseDay(date) ==
  LET iso == split(date, "-")
      us  == split(date, "/")
  IN  IF /\ Len(iso) = 3
         /\ \A i \in 1..3 : AllDigits(iso[i])
         /\ Len(iso[1]) = 4 /\ Len(iso[2]) = 2 /\ Len(iso[3]) = 2
      THEN MakeDay(DigitRun(iso[1], 1, 0), DigitRun(iso[2], 1, 0), DigitRun(iso[3], 1, 0))
      ELSE IF /\ Len(us) = 3
              /\ \A i \in 1..3 : AllDigits(us[i])
              /\ Len(us[1]) <= 2 /\ Len(us[2]) <= 2 /\ Len(us[3]) = 4
      THEN MakeDay(DigitRun(us[3], 1, 0), DigitRun(us[1], 1, 0), DigitRun(us[2], 1, 0))
      ELSE NaN

ParseClock(time) ==
  LET p == split(time, ":")
  IN  IF /\ Len(p) = 2
         /\ AllDigits(p[1]) /\ AllDigits(p[2])
         /\ Len(p[1]) <= 2 /\ Len(p[2]) = 2
         /\ DigitRun(p[1], 1, 0) <= 23 /\ DigitRun(p[2], 1, 0) <= 59
      THEN DigitRun(p[1], 1, 0) * 60 + DigitRun(p[2], 1, 0)
      ELSE NaN

\* new Date(a.date)
DateValue(date) ==
  IF ParseDay(date) = NaN THEN NaN ELSE ParseDay(date) * 1440

\* new Date(a.date + " " + a.time)
DateTimeValue(date, time) ==
  IF ParseDay(date) = NaN \/ ParseClock(time) = NaN THEN NaN
  ELSE ParseDay(date) * 1440 + ParseClock(time)

-----------------------------------------------------------------------------
(* Array.prototype.sort(function(a, b) { return key(a) - key(b); }).        *)
(* A NaN difference counts as 0.  The sort is stable when the comparator    *)
(* is consistent; when it is not (a NaN key next to two different keys),    *)
(* the language leaves the order to the implementation: any permutation.    *)

Compare(ka, kb) == IF ka = NaN \/ kb = NaN THEN 0 ELSE ka - kb

ConsistentKeys(keys) ==
  ~ /\ \E i \in 1..Len(keys) : keys[i] = NaN
    /\ \E i, j \in 1..Len(keys) : keys[i] # NaN /\ keys[j] # NaN /\ keys[i] # keys[j]

\* x goes after the last index already placed whose key is not greater
InsertStable(ord, x, keys) ==
  LET le == {j \in 1..Len(ord) : Compare(keys[ord[j]], keys[x]) <= 0}
      at == IF le = {} THEN 0 ELSE CHOOSE j \in le : \A k \in le : k <= j
  IN  SubSeq(ord, 1, at) \o <<x>> \o SubSeq(ord, at + 1, Len(ord))

RECURSIVE StableOrder(_, _)
StableOrder(keys, n) ==
  IF n = 0 THEN <<>> ELSE InsertStable(StableOrder(keys, n - 1), n, keys)

IndexOrders(n) ==
  {p \in [1..n -> 1..n] : \A i, j \in 1..n : p[i] = p[j] => i = j}

\* the index orders the sort may produce for these keys
SortOrders(keys) ==
  IF ConsistentKeys(keys) THEN {StableOrder(keys, Len(keys))}
  ELSE IndexOrders(Len(keys))

Reorder(seq, ord) == [i \in 1..Len(seq) |-> seq[ord[i]]]

-----------------------------------------------------------------------------
(* Rounding *)

\* Math.round(a / b) for b > 0: halves go up
RoundDiv(a, b) == IF a = Infinity THEN Infinity ELSE (2 * a + b) \div (2 * b)

RECURSIVE SumOver(_, _)
\* sum of f[i] for i in the set
SumOver(f, set) ==
  IF set = {} THEN 0
  ELSE LET i == CHOOSE x \in set : TRUE IN Plus(f[i], SumOver(f, set \ {i}))

-----------------------------------------------------------------------------
(* analyzeBottleFeeds *)

ColType == <<"Type">>
ColStart == <<"Start">>
ColStartLocation == <<"Start", " ", "Location">>
ColEndCondition == <<"End", " ", "Condition">>

\* lines[0].split(",").map(h => h.replace(/^"|"$/g, "").trim())
ParseHeaders(line) ==
  LET parts == split(line, ",")
  IN  [i \in 1..Len(parts) |-> trim(StripQuotes(parts[i]))]

\* Array.prototype.findIndex with an equality test: 0-based, -1 when absent
findIndex(headers, name) ==
  IF \E i \in 1..Len(headers) : headers[i] = name
  THEN (CHOOSE i \in 1..Len(headers) :
          headers[i] = name /\ \A j \in 1..(i - 1) : headers[j] # name) - 1
  ELSE -1

Max2(a, b) == IF a >= b THEN a ELSE b

ColumnIndexes(line) ==
  LET headers == ParseHeaders(line)
  IN  [type     |-> findIndex(headers, ColType),
       start    |-> findIndex(headers, ColStart),
       location |-> findIndex(headers, ColStartLocation),
       cond     |-> findIndex(headers, ColEndCondition)]

MaxIndex(idx) == Max2(Max2(idx.type, idx.start), Max2(idx.location, idx.cond))

DefaultTime == <<"0", "0", ":", "0", "0">>

\* the Event a Start field and an amount make
MakeFeed(dateTime, amount) ==
  LET dateParts == split(dateTime, " ")
      time      == IF Len(dateParts) >= 2 /\ dateParts[2] # <<>>
                   THEN dateParts[2] ELSE DefaultTime
  IN  [date   |-> dateParts[1],
       time   |-> time,
       hour   |-> parseInt(split(time, ":")[1]),
       amount |-> amount]

\* the row loop without the test of the Start Location field
RowFeeds_AnyLocation(line, idx) ==
  LET values == parseCSVLine(line)
  IN  IF trim(line) = <<>> THEN <<>>
      ELSE IF Len(values) <= MaxIndex(idx) THEN <<>>
      ELSE LET dateTime == values[idx.start + 1]
               amount   == ExtractAmount(values[idx.cond + 1])
           IN  IF dateTime # <<>> /\ amount # 0
               THEN <<MakeFeed(dateTime, amount)>> ELSE <<>>

\* one pass of the row loop: the Events (none or one) the line contributes
RowFeeds(line, idx) ==
  LET values == parseCSVLine(line)
  IN  IF trim(line) = <<>> THEN <<>>
      ELSE IF Len(values) <= MaxIndex(idx) THEN <<>>
      ELSE IF values[idx.location + 1] # <<>> /\ IncludesBottle(values[idx.location + 1])
      THEN LET dateTime == values[idx.start + 1]
               amount   == ExtractAmount(values[idx.cond + 1])
           IN  IF dateTime # <<>> /\ amount # 0
               THEN <<MakeFeed(dateTime, amount)>> ELSE <<>>
      ELSE <<>>

RECURSIVE CollectFeeds(_, _, _)
\* bottleFeeds after the row loop has run over lines[i..]
CollectFeeds(lines, i, idx) ==
  IF i > Len(lines) THEN <<>>
  ELSE RowFeeds(lines[i], idx) \o CollectFeeds(lines, i + 1, idx)

\* property names every object inherits: feedsByDate[name] is already truthy
\* and has no .feeds, so feedsByDate[name].feeds.push throws a TypeError
InheritedKeys ==
  {<<"constructor">>, <<"toString">>, <<"valueOf">>, <<"hasOwnProperty">>}

RECURSIVE FirstOccurrences(_, _)
\* Object.keys(feedsByDate): the dates in order of first insertion (no date
\* of the tables below is an array index, which would come first)
FirstOccurrences(feeds, seen) ==
  IF feeds = <<>> THEN <<>>
  ELSE IF Head(feeds).date \in seen THEN FirstOccurrences(Tail(feeds), seen)
  ELSE <<Head(feeds).date>> \o FirstOccurrences(Tail(feeds), seen \cup {Head(feeds).date})

\* "=" for "+=": the day keeps only its last feed's amount
DayStat_LastOnly(feeds, date) ==
  LET mine == {i \in 1..Len(feeds) : feeds[i].date = date}
      last == CHOOSE i \in mine : \A j \in mine : j <= i
  IN  [date          |-> date,
       feedCount     |-> Cardinality(mine),
       totalAmount   |-> feeds[last].amount,
       averageAmount |-> RoundDiv(Times(feeds[last].amount, 10), Cardinality(mine))]

DayStat(feeds, date) ==
  LET mine  == {i \in 1..Len(feeds) : feeds[i].date = date}
      total == SumOver([i \in 1..Len(feeds) |-> feeds[i].amount], mine)
  IN  [date          |-> date,
       feedCount     |-> Cardinality(mine),
       totalAmount   |-> total,
       averageAmount |-> RoundDiv(Times(total, 10), Cardinality(mine))]

\* allStats before allStats.sort
GroupByDate(feeds) ==
  LET dateKeys == FirstOccurrences(feeds, {})
  IN  [k \in 1..Len(dateKeys) |-> DayStat(feeds, dateKeys[k])]

SumAverages(stats, from, to) ==
  SumOver([i \in 1..Len(stats) |-> stats[i].averageAmount], from..to)

\* Math.round((recentAvg - olderAvg) / olderAvg * 1000) / 10, in tenths;
\* dividing by a zero olderAvg gives a non-finite number, Infinity by
\* Infinity is NaN, and Infinity by a finite olderAvg is Infinity
PercentChange(recentSum, recentLen, olderSum, olderLen) ==
  IF olderSum = 0 \/ olderSum = Infinity THEN NaN
  ELSE IF recentSum = Infinity THEN Infinity
  ELSE RoundDiv(1000 * (recentSum * olderLen - olderSum * recentLen), olderSum * recentLen)

TrendWindow == 7

TrendMinDays == 14

\* ">" for ">=": no trend on exactly fourteen days
RecentTrend_Strict(allStats) ==
  IF Len(allStats) > TrendMinDays
  THEN LET n         == Len(allStats)
           recentSum == SumAverages(allStats, n - TrendWindow + 1, n)
           olderSum  == SumAverages(allStats, n - 2 * TrendWindow + 1, n - TrendWindow)
       IN  <<[recentAverage |-> RoundDiv(recentSum, TrendWindow),
              olderAverage  |-> RoundDiv(olderSum, TrendWindow),
              percentChange |-> PercentChange(recentSum, TrendWindow, olderSum, TrendWindow)]>>
  ELSE Null

RecentTrend(allStats) ==
  IF Len(allStats) >= TrendMinDays
  THEN LET n         == Len(allStats)
           recentSum == SumAverages(allStats, n - TrendWindow + 1, n)
           olderSum  == SumAverages(allStats, n - 2 * TrendWindow + 1, n - TrendWindow)
       IN  <<[recentAverage |-> RoundDiv(recentSum, TrendWindow),
              olderAverage  |-> RoundDiv(olderSum, TrendWindow),
              percentChange |-> PercentChange(recentSum, TrendWindow, olderSum, TrendWindow)]>>
  ELSE Null

SlotNames == <<"12am-6am", "6am-12pm", "12pm-6pm", "6pm-12am">>

\* the if / else-if chain over feedItem.hour; every comparison with NaN is false
SlotOf(hour) ==
  IF hour # NaN /\ hour >= 0 /\ hour < 6 THEN 1
  ELSE IF hour # NaN /\ hour >= 6 /\ hour < 12 THEN 2
  ELSE IF hour # NaN /\ hour >= 12 /\ hour < 18 THEN 3
  ELSE 4

TimeStats(feeds) ==
  [q \in 1..4 |->
     LET mine  == {i \in 1..Len(feeds) : SlotOf(feeds[i].hour) = q}
         total == SumOver([i \in 1..Len(feeds) |-> feeds[i].amount], mine)
     IN  [hour          |-> SlotNames[q],
          count         |-> Cardinality(mine),
          totalAmount   |-> total,
          percentage    |-> RoundDiv(Cardinality(mine) * 1000, Len(feeds)),
          averageAmount |-> IF Cardinality(mine) > 0
                            THEN RoundDiv(Times(total, 10), Cardinality(mine)) ELSE 0]]

LastN(seq, n) == SubSeq(seq, Max2(1, Len(seq) - n + 1), Len(seq))

\* the object the function returns once both sorts have run
BuildResult(bottleFeeds, allStats) ==
  LET totalAmount == SumOver([i \in 1..Len(bottleFeeds) |-> bottleFeeds[i].amount],
                             1..Len(bottleFeeds))
  IN  [ok           |-> TRUE,
       overallStats |->
         [totalBottleFeeds  |-> Len(bottleFeeds),
          dateRange         |-> [start |-> bottleFeeds[1].date,
                                 end   |-> bottleFeeds[Len(bottleFeeds)].date],
          averageDailyFeeds |-> RoundDiv(Len(bottleFeeds) * 10, Len(allStats)),
          averageFeedSize   |-> RoundDiv(Times(totalAmount, 10), Len(bottleFeeds))],
       recentTrend  |-> RecentTrend(allStats),
       dailyStats   |-> LastN(allStats, TrendWindow),
       allStats     |-> allStats,
       timeStats    |-> TimeStats(bottleFeeds),
       rawFeeds     |-> bottleFeeds]

Failure(message) == [ok |-> FALSE, message |-> message]

\* the outcomes of analyzeBottleFeeds(csvText): a result object, or the Error
\* the catch clause rethrows
analyzeBottleFeeds(lines) ==
  IF Len(lines) < 2
  THEN {Failure("Failed to analyze CSV: CSV data appears to be empty or invalid")}
  ELSE LET idx == ColumnIndexes(lines[1])
       IN  IF idx.type = -1 \/ idx.start = -1 \/ idx.location = -1 \/ idx.cond = -1
           THEN {Failure("Failed to analyze CSV: Required columns not found in CSV data")}
           ELSE LET collected == CollectFeeds(lines, 2, idx)
                IN  IF collected = <<>>
                    THEN {Failure("Failed to analyze CSV: No valid bottle feeds found in the CSV data")}
                    ELSE IF \E i \in 1..Len(collected) : collected[i].date \in InheritedKeys
                    THEN {Failure("Failed to analyze CSV: Cannot read properties of undefined (reading 'push')")}
                    ELSE LET feedKeys == [i \in 1..Len(collected) |->
                                            DateTimeValue(collected[i].date, collected[i].time)]
                         IN  UNION {
                               LET bottleFeeds == Reorder(collected, fo)
                                   grouped     == GroupByDate(bottleFeeds)
                                   statKeys    == [k \in 1..Len(grouped) |->
                                                     DateValue(grouped[k].date)]
                               IN  {BuildResult(bottleFeeds, Reorder(grouped, so)) :
                                      so \in SortOrders(statKeys)}
                               : fo \in SortOrders(feedKeys)}

-----------------------------------------------------------------------------
(* calculateDailyTrends *)

\* slice(Math.max(0, i - 14), i - 6): an older window of eight days
TrendEntry_WideOlder(sortedStats, i) ==
  LET from      == Max2(1, i - 2 * TrendWindow)
      recentSum == SumAverages(sortedStats, i - TrendWindow + 1, i)
      olderSum  == SumAverages(sortedStats, from, i - TrendWindow)
      olderLen  == i - TrendWindow - from + 1
  IN  [date      |-> sortedStats[i].date,
       value     |-> PercentChange(recentSum, TrendWindow, olderSum, olderLen),
       recentAvg |-> RoundDiv(recentSum, TrendWindow),
       olderAvg  |-> RoundDiv(olderSum, olderLen)]

TrendEntry(sortedStats, i) ==
  LET from      == Max2(1, i - 2 * TrendWindow + 1)
      recentSum == SumAverages(sortedStats, i - TrendWindow + 1, i)
      olderSum  == SumAverages(sortedStats, from, i - TrendWindow)
      olderLen  == i - TrendWindow - from + 1
  IN  [date      |-> sortedStats[i].date,
       value     |-> PercentChange(recentSum, TrendWindow, olderSum, olderLen),
       recentAvg |-> RoundDiv(recentSum, TrendWindow),
       olderAvg  |-> RoundDiv(olderSum, olderLen)]

RECURSIVE TrendLoop(_, _)
\* the for loop from index i (1-based; the code's i + 1) to the end
TrendLoop(sortedStats, i) ==
  IF i > Len(sortedStats) THEN <<>>
  ELSE LET recentLen == i - Max2(1, i - TrendWindow + 1) + 1
           olderLen  == (i - TrendWindow) - Max2(1, i - 2 * TrendWindow + 1) + 1
       IN  (IF recentLen > 0 /\ olderLen > 0 THEN <<TrendEntry(sortedStats, i)>> ELSE <<>>)
           \o TrendLoop(sortedStats, i + 1)

\* the loop starts one index late
TrendHistoryOf_OffByOne(sortedStats) == TrendLoop(sortedStats, TrendMinDays + 1)

TrendHistoryOf(sortedStats) == TrendLoop(sortedStats, TrendMinDays)

\* the lists calculateDailyTrends(allStats) may return
calculateDailyTrends(allStats) ==
  IF Len(allStats) < TrendMinDays THEN {<<>>}
  ELSE {TrendHistoryOf(Reorder(allStats, so)) :
          so \in SortOrders([k \in 1..Len(allStats) |-> DateValue(allStats[k].date)])}

-----------------------------------------------------------------------------
(* The stored tables the model draws from. *)

MaxRows == 3

MaxAltRows == 1

MaxSeries == 15

SeriesFixed == 7

Digit(n) == DigitChars[n + 1]

TwoDigits(n) == <<Digit(n \div 10), Digit(n % 10)>>

RECURSIVE Decimal(_)
Decimal(n) == IF n < 10 THEN <<Digit(n)>> ELSE Decimal(n \div 10) \o <<Digit(n % 10)>>

IsoDate(m, d) == <<"2", "0", "2", "3", "-">> \o TwoDigits(m) \o <<"-">> \o TwoDigits(d)

Clock(h, mi) == TwoDigits(h) \o <<":">> \o TwoDigits(mi)

Row(start, location, cond) ==
  <<"Feed", ",">> \o start \o <<",">> \o location \o <<",">> \o cond

Ml(n) == Decimal(n) \o <<"ml">>

StdHeader ==
  ColType \o <<",">> \o ColStart \o <<",">> \o ColStartLocation \o <<",">> \o ColEndCondition

\* quoted and padded names, one more column
AltHeader ==
  <<"\"">> \o ColType \o <<"\"", ",", " ">> \o ColStart \o <<" ", ",", "\"">>
    \o ColStartLocation \o <<"\"", ",">> \o ColEndCondition \o <<",", "Notes">>

\* the names the upload check looks for, but not the columns the analysis needs
BadHeader == <<"Type", ",", "Start", ",", "Location", ",", "Condition">>

Headers == {StdHeader, AltHeader, BadHeader}

RowChoices ==
  { Row(IsoDate(3, 1) \o <<" ">> \o Clock(8, 0), <<"Bottle">>, Ml(120)),
    Row(IsoDate(3, 1) \o <<" ">> \o Clock(13, 30), <<"Bottle">>, Ml(95)),
    Row(<<"3", "/", "1", "/", "2", "0", "2", "3", " ">> \o Clock(20, 15),
        <<"Bottle">>, Ml(60)),
    Row(IsoDate(2, 28), <<"\"", "Bottle", ",", " ", "formula", "\"">>,
        <<"approx", " ", "9", "0", " ", "of", " ", "1", "5", "0">>),
    Row(IsoDate(3, 2) \o <<" ">> \o Clock(25, 0), <<"Bottle">>, Ml(30)),
    Row(IsoDate(3, 2) \o <<" ", "noon">>, <<"Bottle">>, Ml(75)),
    Row(<<"constructor", " ">> \o Clock(8, 0), <<"Bottle">>, Ml(120)),
    Row(<<"today", " ">> \o Clock(5, 0), <<"Bottle">>, Ml(45)),
    Row(IsoDate(3, 1) \o <<" ">> \o Clock(9, 0), <<"Breast">>, Ml(110)),
    Row(IsoDate(3, 1) \o <<" ">> \o Clock(10, 0), <<"Bottle">>, <<"Refused">>),
    Row(IsoDate(3, 1) \o <<" ">> \o Clock(11, 0), <<"Bottle">>, Ml(0)),
    Row(<<>>, <<"Bottle">>, Ml(120)),
    <<"Feed", ",">> \o IsoDate(3, 1) \o <<" ">> \o Clock(12, 0) \o <<",", "Bottle">>,
    <<" ">> }

SeriesBase == 100

SeriesAmounts == {SeriesBase, SeriesBase + 20}

\* day i of a daily log that starts on 20 February
SeriesDate(i) == IF i <= 9 THEN IsoDate(2, 19 + i) ELSE IsoDate(3, i - 9)

SeriesRow(i, amount) ==
  Row(SeriesDate(i) \o <<" ">> \o Clock(8, 0), <<"Bottle">>, Ml(amount))

\* a daily log: one bottle feed a day, the first SeriesFixed days of SeriesBase
IsSeries(data) ==
  \A i \in 1..Len(data) :
    \E a \in SeriesAmounts :
      data[i] = SeriesRow(i, a) /\ (i <= SeriesFixed => a = SeriesBase)

\* an End Condition typed as one digit held down: a run of digits too long
\* to write a finite number
LongDigits == [i \in 1..(MaxFiniteDigits + 1) |-> "9"]

LongDigitsRow(i) ==
  Row(SeriesDate(i) \o <<" ">> \o Clock(8, 0), <<"Bottle">>, LongDigits \o <<"ml">>)

\* a daily log of SeriesBase feeds in which entries after the first
\* SeriesFixed days may hold the long run of digits
IsLongDigitsSeries(data) ==
  \A i \in 1..Len(data) :
    \/ data[i] = SeriesRow(i, SeriesBase)
    \/ i > SeriesFixed /\ data[i] = LongDigitsRow(i)

-----------------------------------------------------------------------------
(* The workers: their bindings, the bucket, and the response to the request *)
(* in hand.  A request reads the bucket once and is answered in one step;   *)
(* the response stays until the client has taken it.                        *)

VARIABLES
  env,     \* the bindings of the deployment: is env.R2_BUCKET there, is env.AI
  bucket,  \* the R2 bucket: for each key the stored text (its lines), or NoObject
  latest,  \* the key of the object whose `uploaded` time is the latest, or NoKey
  resp,    \* the Response to the request in hand: route, status and body
  ai       \* what the env.AI.run call of the request in hand did

vars == <<env, bucket, latest, resp, ai>>

DataKey == "josie-feeding-data.csv"

\* the key the upload worker puts the file under
UploadKey == "feeding-data.csv"

Keys == {DataKey, UploadKey}

NoKey == "none"

\* R2_BUCKET.get / head of a key that holds nothing
NoObject == <<>>

NoResponse == [route |-> "none", status |-> 0, body |-> <<>>]

Now == "now"

DefaultBabyWeight == 40

IntakePerKg == 150

Response(route, status, body) == [route |-> route, status |-> status, body |-> body]

\* the catch clause without its status: 200, the default
DataErrorResponse_NoStatus(message) ==
  Response("data", 200, [error |-> "Error processing data", details |-> message])

\* the catch clause of handleDataRequest
DataErrorResponse(message) ==
  Response("data", 500, [error |-> "Error processing data", details |-> message])

\* handleDataRequest once the bucket binding is there; the body is the object
\* handed to JSON.stringify
handleDataRequest(r2) ==
  IF r2[DataKey] = NoObject
  THEN {Response("data", 404, [error |-> "CSV file not found in R2 storage"])}
  ELSE UNION {
         IF ~analysisResults.ok
         THEN {DataErrorResponse(analysisResults.message)}
         ELSE {Response("data", 200,
                  [overallStats      |-> analysisResults.overallStats,
                   recentTrend       |-> analysisResults.recentTrend,
                   dailyStats        |-> analysisResults.dailyStats,
                   allStats          |-> analysisResults.allStats,
                   timeStats         |-> analysisResults.timeStats,
                   rawFeeds          |-> analysisResults.rawFeeds,
                   timestamp         |-> Now,
                   trendHistory      |-> trendHistory,
                   babyWeight        |-> DefaultBabyWeight,
                   recommendedIntake |-> (DefaultBabyWeight * IntakePerKg) \div 10]) :
                 trendHistory \in calculateDailyTrends(analysisResults.allStats)}
         : analysisResults \in analyzeBottleFeeds(r2[DataKey])}

\* the length of the stored text: its pieces and the line breaks between lines
RECURSIVE TextSize(_)
TextSize(lines) ==
  IF lines = <<>> THEN 0
  ELSE Len(Head(lines)) + (IF Len(lines) > 1 THEN 1 ELSE 0) + TextSize(Tail(lines))

handleFileMetaRequest(hasR2, r2) ==
  IF ~hasR2
  THEN Response("filemeta", 500, [error   |-> "Error getting file metadata",
                                  details |-> "R2 bucket binding not configured"])
  ELSE IF r2[DataKey] = NoObject
  THEN Response("filemeta", 500, [error   |-> "Error getting file metadata",
                                  details |-> "File not found"])
  ELSE Response("filemeta", 200, [fileName     |-> DataKey,
                                  lastModified |-> "uploaded",
                                  size         |-> TextSize(r2[DataKey])])

FallbackBabyWeight == 39

FallbackIntake == 585

prepareAIContext(data) ==
  [lastSevenDays     |-> data.dailyStats,
   recentTrend       |-> data.recentTrend,
   timeStats         |-> data.timeStats,
   babyWeight        |-> FallbackBabyWeight,
   recommendedIntake |-> FallbackIntake]

(* What env.AI.run does with the prompt is the collaborator's choice:       *)
(*   "rejects"  the call throws;                                            *)
(*   "empty"    the result has no response text (result.response.trim       *)
(*              throws a TypeError);                                        *)
(*   "insights" the text is JSON for an object with the three keys;         *)
(*   "object"   the text is JSON for an object of another shape;            *)
(*   "scalar"   the text is JSON for a number, a string or null (setting    *)
(*              .timestamp on it throws a TypeError in module code);        *)
(*   "text"     the text is not JSON.                                       *)
AIOutcomes == {"rejects", "empty", "insights", "object", "scalar", "text"}

RawText == "Here are three insights about the week"

Placeholder(weekSummary) ==
  [weekSummary |-> weekSummary, dayComparison |-> "", milestones |-> ""]

FallbackInsights(message) ==
  [weekSummary   |-> "Unable to generate insights at this time.",
   dayComparison |-> "",
   milestones    |-> "",
   error         |-> message]

\* without the inner try / catch a text that is not JSON ends in the outer catch
generateInsights_NoInnerCatch(context, outcome) ==
  CASE outcome = "rejects"  -> FallbackInsights("AI request failed")
    [] outcome = "empty"    ->
         FallbackInsights("Cannot read properties of undefined (reading 'trim')")
    [] outcome = "scalar"   ->
         FallbackInsights("Cannot create property 'timestamp'")
    [] outcome = "insights" ->
         [weekSummary |-> "summary", dayComparison |-> "comparison",
          milestones |-> "milestones", timestamp |-> Now]
    [] outcome = "object"   -> [answer |-> RawText, timestamp |-> Now]
    [] outcome = "text"     -> FallbackInsights("Unexpected token in JSON")

generateInsights(context, outcome) ==
  CASE outcome = "rejects"  -> FallbackInsights("AI request failed")
    [] outcome = "empty"    ->
         FallbackInsights("Cannot read properties of undefined (reading 'trim')")
    [] outcome = "scalar"   ->
         FallbackInsights("Cannot create property 'timestamp'")
    [] outcome = "insights" ->
         [weekSummary |-> "summary", dayComparison |-> "comparison",
          milestones |-> "milestones", timestamp |-> Now]
    [] outcome = "object"   -> [answer |-> RawText, timestamp |-> Now]
    [] outcome = "text"     ->
         [weekSummary |-> RawText, dayComparison |-> "", milestones |-> "",
          timestamp |-> Now]

NoCall == "none"

\* the responses handleInsightsRequest may give, each with the outcome of the
\* env.AI.run call it made (NoCall when it returned before calling)
handleInsightsRequest(e, r2) ==
  IF ~e.AI
  THEN {[resp |-> Response("insights", 500,
                    [error   |-> "Workers AI binding not configured",
                     details |-> "Please add the AI binding in your Worker settings"]),
         ai   |-> NoCall]}
  ELSE IF ~e.R2_BUCKET
  THEN {[resp |-> Response("insights", 500,
                    [error   |-> "Failed to generate insights",
                     details |-> "Cannot read properties of undefined (reading 'get')"]),
         ai   |-> NoCall]}
  ELSE IF r2[DataKey] = NoObject
  THEN {[resp |-> Response("insights", 404, [error |-> "CSV file not found in R2 storage"]),
         ai   |-> NoCall]}
  ELSE UNION {
         IF ~analysisResults.ok
         THEN {[resp |-> Response("insights", 500,
                           [error   |-> "Failed to generate insights",
                            details |-> analysisResults.message]),
                ai   |-> NoCall]}
         ELSE {[resp |-> Response("insights", 200,
                           generateInsights(prepareAIContext(analysisResults), outcome)),
                ai   |-> outcome] : outcome \in AIOutcomes}
         : analysisResults \in analyzeBottleFeeds(r2[DataKey])}

-----------------------------------------------------------------------------
(* The upload worker (src/csv_upload_worker_code.md).  It is deployed with  *)
(* the same bucket bound as R2_BUCKET.  No word validateCSV looks for       *)
(* occurs in the texts below inside a longer run of letters, so             *)
(* headers.includes(word) is the presence of the piece.                     *)

\* String.prototype.toLowerCase on one piece
LowerCase(c) ==
  CASE c = "Type"      -> "type"
    [] c = "Start"     -> "start"
    [] c = "Location"  -> "location"
    [] c = "Condition" -> "condition"
    [] c = "End"       -> "end"
    [] c = "Date"      -> "date"
    [] c = "Amount"    -> "amount"
    [] c = "Notes"     -> "notes"
    [] OTHER           -> c

toLowerCase(s) == [i \in 1..Len(s) |-> LowerCase(s[i])]

includes(s, word) == \E i \in 1..Len(s) : s[i] = word

validateCSV(content) ==
  IF Len(content) < 2 THEN FALSE
  ELSE LET headers == toLowerCase(content[1])
       IN  /\ includes(headers, "type")
           /\ includes(headers, "start")
           /\ includes(headers, "location")
           /\ includes(headers, "condition")

\* formData.get("file") of a form without a file
NoFile == [name |-> <<>>, text |-> <<>>]

\* file.name.endsWith(".csv")
EndsWithCsv(name) ==
  Len(name) >= 2 /\ name[Len(name) - 1] = "." /\ name[Len(name)] = "csv"

UploadError(status, message) == Response("upload", status, [error |-> message])

\* handleUpload: the response, and whether R2_BUCKET.put stored the file text
handleUpload(e, request) ==
  IF request.contentType # "multipart/form-data"
  THEN [resp   |-> UploadError(400, "Invalid content type, must be multipart/form-data"),
        stored |-> FALSE]
  ELSE IF request.file = NoFile
  THEN [resp |-> UploadError(400, "No file provided"), stored |-> FALSE]
  ELSE IF ~EndsWithCsv(request.file.name)
  THEN [resp |-> UploadError(400, "File must be a CSV"), stored |-> FALSE]
  ELSE IF ~validateCSV(request.file.text)
  THEN [resp |-> UploadError(400, "Invalid CSV format"), stored |-> FALSE]
  ELSE IF ~e.R2_BUCKET
  THEN [resp   |-> UploadError(500, "Error processing upload: Cannot read properties of undefined (reading 'put')"),
        stored |-> FALSE]
  ELSE [resp   |-> Response("upload", 200,
                     [success   |-> TRUE,
                      message   |-> "File uploaded successfully",
                      filename  |-> request.file.name,
                      size      |-> TextSize(request.file.text),
                      timestamp |-> Now]),
        stored |-> TRUE]

\* the Content-Type headers a client sends ("" for none)
ContentTypes == {"multipart/form-data", "text/csv", ""}

FileNames == {<<"feeds", ".", "csv">>, <<"feeds", ".", "txt">>}

\* the header as a spreadsheet in lower case writes it
LowerHeader ==
  <<"type", ",", "start", ",", "start", " ", "location", ",", "end", " ", "condition">>

UploadRow == Row(IsoDate(3, 3) \o <<" ">> \o Clock(7, 45), <<"Bottle">>, Ml(110))

\* the texts a client uploads: a log of one feed, the same with the header in
\* lower case, with the header of other columns, a header and an empty
\* second line, a header alone, and a table of another kind
UploadTexts ==
  { <<StdHeader, UploadRow>>,
    <<LowerHeader, UploadRow>>,
    <<BadHeader, UploadRow>>,
    <<StdHeader, <<>>>>,
    <<StdHeader>>,
    <<<<"Date", ",", "Amount">>, IsoDate(3, 3) \o <<",">> \o Ml(110)>> }

UploadRequests ==
  {[contentType |-> ct, file |-> f] :
     ct \in ContentTypes,
     f \in {NoFile} \cup {[name |-> n, text |-> t] : n \in FileNames, t \in UploadTexts}}

-----------------------------------------------------------------------------
(* Actions *)

Bindings ==
  {[R2_BUCKET |-> TRUE, AI |-> TRUE],
   [R2_BUCKET |-> TRUE, AI |-> FALSE],
   [R2_BUCKET |-> FALSE, AI |-> TRUE]}

Init ==
  /\ env \in Bindings
  /\ bucket = [k \in Keys |-> NoObject]
  /\ latest = NoKey
  /\ resp = NoResponse
  /\ ai = NoCall

Idle == resp = NoResponse

\* the operator of the bucket stores a table that has only its header line
PutObject ==
  /\ Idle /\ env.R2_BUCKET
  /\ \E h \in Headers : bucket' = [bucket EXCEPT ![DataKey] = <<h>>]
  /\ latest' = DataKey
  /\ UNCHANGED <<env, resp, ai>>

RowLimit(header) == IF header = StdHeader THEN MaxRows ELSE MaxAltRows

\* ... or replaces the stored table by one with one more line
AppendLine ==
  /\ Idle /\ env.R2_BUCKET
  /\ bucket[DataKey] # NoObject
  /\ LET lines == bucket[DataKey]
         data  == Tail(lines)
     IN  \E line \in RowChoices
                    \cup {SeriesRow(Len(data) + 1, a) : a \in SeriesAmounts} :
           /\ \/ line \in RowChoices /\ Len(data) < RowLimit(Head(lines))
              \/ /\ Head(lines) = StdHeader
                 /\ Len(data) < MaxSeries
                 /\ IsSeries(Append(data, line))
           /\ bucket' = [bucket EXCEPT ![DataKey] = Append(lines, line)]
  /\ latest' = DataKey
  /\ UNCHANGED <<env, resp, ai>>

DataRequest ==
  /\ Idle
  /\ IF ~env.R2_BUCKET
     THEN resp' = Response("data", 500,
                           [error   |-> "R2 bucket binding not configured",
                            details |-> "Please configure the R2_BUCKET binding in your Worker settings"])
     ELSE resp' \in handleDataRequest(bucket)
  /\ UNCHANGED <<env, bucket, latest, ai>>

FileMetaRequest ==
  /\ Idle
  /\ resp' = handleFileMetaRequest(env.R2_BUCKET, bucket)
  /\ UNCHANGED <<env, bucket, latest, ai>>

InsightsRequest ==
  /\ Idle
  /\ \E out \in handleInsightsRequest(env, bucket) :
       resp' = out.resp /\ ai' = out.ai
  /\ UNCHANGED <<env, bucket, latest>>

\* the client takes the response
Deliver ==
  /\ ~Idle
  /\ resp' = NoResponse
  /\ ai' = NoCall
  /\ UNCHANGED <<env, bucket, latest>>

Next ==
  \/ PutObject
  \/ AppendLine
  \/ DataRequest
  \/ FileMetaRequest
  \/ InsightsRequest
  \/ Deliver

Spec == Init /\ [][Next]_vars

\* the stored daily log grows by a day whose amount may be the long run of digits
AppendLongDigitsLine ==
  /\ Idle /\ env.R2_BUCKET
  /\ bucket[DataKey] # NoObject
  /\ LET lines == bucket[DataKey]
         data  == Tail(lines)
     IN  /\ Head(lines) = StdHeader
         /\ Len(data) < MaxSeries
         /\ \E line \in {SeriesRow(Len(data) + 1, SeriesBase), LongDigitsRow(Len(data) + 1)} :
              /\ IsLongDigitsSeries(Append(data, line))
              /\ bucket' = [bucket EXCEPT ![DataKey] = Append(lines, line)]
  /\ latest' = DataKey
  /\ UNCHANGED <<env, resp, ai>>

\* a client posts a form to /upload of the upload worker
Upload ==
  /\ Idle
  /\ \E request \in UploadRequests :
       LET out == handleUpload(env, request)
       IN  /\ resp' = out.resp
           /\ IF out.stored
              THEN /\ bucket' = [bucket EXCEPT ![UploadKey] = request.file.text]
                   /\ latest' = UploadKey
              ELSE UNCHANGED <<bucket, latest>>
  /\ UNCHANGED <<env, ai>>

MaxStoredRows == 1

\* both workers on the bucket, the operator's tables of at most MaxStoredRows rows
UploadNext ==
  \/ PutObject
  \/ AppendLine /\ Len(bucket[DataKey]) <= MaxStoredRows
  \/ Upload
  \/ DataRequest
  \/ FileMetaRequest
  \/ InsightsRequest
  \/ Deliver

UploadSpec == Init /\ [][UploadNext]_vars

LongDigitsNext ==
  \/ PutObject
  \/ AppendLongDigitsLine
  \/ DataRequest
  \/ Deliver

\* the worker over daily logs that may hold the long run of digits
LongDigitsSpec == Init /\ [][LongDigitsNext]_vars

-----------------------------------------------------------------------------
(* Properties *)

Stored == bucket[DataKey]

\* the /data request in hand was answered with an analysis
DataOK == resp.route = "data" /\ resp.status = 200

\* the /data request in hand found a stored table
DataRead == resp.route = "data" /\ env.R2_BUCKET /\ Stored # NoObject

Indexes(seq) == 1..Len(seq)

TotalOf(stats) == SumOver([k \in Indexes(stats) |-> stats[k].totalAmount], Indexes(stats))

VolumeOf(feeds) == SumOver([i \in Indexes(feeds) |-> feeds[i].amount], Indexes(feeds))

\* C1: whenever the analysis returns a result, the totalAmount of all entries
\* of allStats add up to the amount of all Events of rawFeeds.
C1_VolumeConserved ==
  DataOK => TotalOf(resp.body.allStats) = VolumeOf(resp.body.rawFeeds)

\* a result in which grouping merged two feeds of one date and kept another date apart
C1_Witness ==
  /\ DataOK
  /\ Len(resp.body.allStats) >= 2
  /\ \E k \in Indexes(resp.body.allStats) : resp.body.allStats[k].feedCount >= 2

\* C2: whenever the analysis returns a result (all of whose dates are calendar
\* dates), allStats is strictly ascending by calendar date: no two entries
\* denote the same day, whatever the spelling of the day in the Start field.
C2_StrictlyAscendingDates ==
  (DataOK /\ \A k \in Indexes(resp.body.allStats) :
               DateValue(resp.body.allStats[k].date) # NaN)
  => \A i, j \in Indexes(resp.body.allStats) :
       i < j => DateValue(resp.body.allStats[i].date) < DateValue(resp.body.allStats[j].date)

HourRange(q) == ((q - 1) * 6)..(q * 6 - 1)

\* C3: the four time-of-day buckets partition the Events: every Event's hour
\* lies in exactly one of [0,6), [6,12), [12,18), [18,24), that bucket counts
\* it, and the bucket counts and amounts add up to all Events and all volume.
C3_BucketsPartition ==
  DataOK =>
    LET feeds == resp.body.rawFeeds
        slots == resp.body.timeStats
    IN  /\ \A i \in Indexes(feeds) : \E q \in 1..4 : feeds[i].hour \in HourRange(q)
        /\ \A q \in 1..4 :
             LET mine == {i \in Indexes(feeds) : feeds[i].hour \in HourRange(q)}
             IN  /\ slots[q].count = Cardinality(mine)
                 /\ slots[q].totalAmount =
                      SumOver([i \in Indexes(feeds) |-> feeds[i].amount], mine)
        /\ SumOver([q \in 1..4 |-> slots[q].count], 1..4) = Len(feeds)
        /\ SumOver([q \in 1..4 |-> slots[q].totalAmount], 1..4) = VolumeOf(feeds)

Reverse(seq) == [i \in Indexes(seq) |-> seq[Len(seq) + 1 - i]]

AscendingDates(stats) ==
  \A i, j \in Indexes(stats) :
    i < j => /\ DateValue(stats[i].date) # NaN
             /\ DateValue(stats[i].date) < DateValue(stats[j].date)

\* what C4 says of one list calculateDailyTrends returned for `given`, whose
\* entries in ascending date order are `ascending`
TrendHistoryShape(history, ascending) ==
  /\ Len(ascending) < 14 => history = <<>>
  /\ Len(ascending) >= 14 =>
       /\ Len(history) = Len(ascending) - 13
       /\ \A k \in 0..(Len(history) - 1) : history[k + 1].date = ascending[13 + k + 1].date

\* C4: calculateDailyTrends returns an empty list for fewer than 14 DailyStats
\* and count - 13 entries otherwise, the k-th (from 0) anchored to the date of
\* the (13+k)-th DailyStat in ascending date order; so for allStats as the
\* handler passes it, and for the same DailyStats handed over in reverse order.
C4_TrendHistoryLength ==
  DataOK =>
    /\ TrendHistoryShape(resp.body.trendHistory, resp.body.allStats)
    /\ Len(resp.body.allStats) >= 14 =>
         /\ AscendingDates(resp.body.allStats)
         /\ \A history \in calculateDailyTrends(Reverse(resp.body.allStats)) :
              TrendHistoryShape(history, resp.body.allStats)

\* fifteen days of data: two trend entries
C4_Witness ==
  /\ DataOK
  /\ Len(resp.body.allStats) = 15
  /\ Len(resp.body.trendHistory) = 2

\* the sum of averageAmount (in tenths) over the last 7 entries, and over the 7 before
RecentSum(stats) ==
  SumOver([k \in Indexes(stats) |-> stats[k].averageAmount],
          (Len(stats) - 6)..Len(stats))

OlderSum(stats) ==
  SumOver([k \in Indexes(stats) |-> stats[k].averageAmount],
          (Len(stats) - 13)..(Len(stats) - 7))

TrendAbsentWhen(stats) == Len(stats) < 14 \/ OlderSum(stats) = 0

\* x (in tenths) is the mean sum / 7 rounded to one decimal
IsRoundedMean(x, sum) == -7 <= 2 * sum - 14 * x /\ 2 * sum - 14 * x < 7

\* C5 as claimed: recentTrend is null when allStats has fewer than 14 entries
\* or the older window's average is 0; otherwise recentAverage is the mean of
\* averageAmount over the last 7 DailyStats and olderAverage the mean over the
\* 7 before them.
C5_ExactMeans ==
  DataOK =>
    LET stats == resp.body.allStats
        trend == resp.body.recentTrend
    IN  /\ (trend = Null) <=> TrendAbsentWhen(stats)
        /\ trend # Null =>
             /\ 7 * trend[1].recentAverage = RecentSum(stats)
             /\ 7 * trend[1].olderAverage = OlderSum(stats)

\* C5 as amended: the same, with recentAverage and olderAverage the two means
\* rounded to one decimal place.
C5_RoundedMeans ==
  DataOK =>
    LET stats == resp.body.allStats
        trend == resp.body.recentTrend
    IN  /\ (trend = Null) <=> TrendAbsentWhen(stats)
        /\ trend # Null =>
             /\ IsRoundedMean(trend[1].recentAverage, RecentSum(stats))
             /\ IsRoundedMean(trend[1].olderAverage, OlderSum(stats))

\* a trend whose recent mean is not a whole number of tenths
C5_Witness ==
  /\ DataOK
  /\ resp.body.recentTrend # Null
  /\ RecentSum(resp.body.allStats) % 7 # 0

RequiredColumns == {ColType, ColStart, ColStartLocation, ColEndCondition}

HeaderNames(line) ==
  {trim(StripQuotes(split(line, ",")[i])) : i \in Indexes(split(line, ","))}

\* fewer than 2 rows, or a required column missing from the header
StructuralError(lines) ==
  Len(lines) < 2 \/ ~(RequiredColumns \subseteq HeaderNames(lines[1]))

RECURSIVE Pow10(_)
Pow10(n) == IF n = 0 THEN 1 ELSE 10 * Pow10(n - 1)

HasDigit(s) == \E i \in Indexes(s) : IsDigit(s[i])

\* the number the first run of decimal digits of s writes
FirstRunValue(s) ==
  LET from == CHOOSE i \in Indexes(s) :
                IsDigit(s[i]) /\ \A j \in 1..(i - 1) : ~IsDigit(s[j])
      to   == CHOOSE j \in from..Len(s) :
                /\ \A k \in from..j : IsDigit(s[k])
                /\ j = Len(s) \/ ~IsDigit(s[j + 1])
  IN  SumOver([k \in Indexes(s) |->
                 IF IsDigit(s[k]) THEN DigitVal(s[k]) * Pow10(to - k) ELSE 0],
              from..to)

FieldCount(line) == Len(parseCSVLine(line))

Field(line, index) == parseCSVLine(line)[index + 1]

\* the row test of C8
Qualifies(line, idx) ==
  /\ trim(line) # <<>>
  /\ FieldCount(line) >= MaxIndex(idx) + 1
  /\ IncludesBottle(Field(line, idx.location))
  /\ Field(line, idx.start) # <<>>
  /\ HasDigit(Field(line, idx.cond))
  /\ FirstRunValue(Field(line, idx.cond)) # 0

\* a row C8 says has no effect: its location lacks "Bottle" or its End
\* Condition has no digit
Inert(line, idx) ==
  /\ trim(line) # <<>>
  /\ FieldCount(line) >= MaxIndex(idx) + 1
  /\ ~IncludesBottle(Field(line, idx.location)) \/ ~HasDigit(Field(line, idx.cond))

RECURSIVE WithoutInert(_, _)
WithoutInert(rows, idx) ==
  IF rows = <<>> THEN <<>>
  ELSE (IF Inert(Head(rows), idx) THEN <<>> ELSE <<Head(rows)>>)
       \o WithoutInert(Tail(rows), idx)

\* zero Events survive filtering
NoEvents(lines) ==
  ~\E i \in 2..Len(lines) : Qualifies(lines[i], ColumnIndexes(lines[1]))

ResultFields ==
  {"overallStats", "recentTrend", "dailyStats", "allStats", "timeStats", "rawFeeds"}

\* C6: the analysis is all-or-nothing: a /data request that read a table
\* fails exactly when the table has fewer than 2 rows, or lacks one of the
\* columns Type, Start, Start Location, End Condition, or no Event survives
\* filtering; otherwise the response is a complete result; and a failing
\* response carries no field of the result.
C6_AllOrNothing ==
  DataRead =>
    /\ (resp.status # 200) <=> (StructuralError(Stored) \/ NoEvents(Stored))
    /\ resp.status = 200 => ResultFields \subseteq DOMAIN resp.body
    /\ resp.status # 200 => DOMAIN resp.body \cap ResultFields = {}

\* C7: every Event of rawFeeds has amount > 0 and 0 <= hour <= 23.
C7_EventsInRange ==
  DataOK =>
    \A i \in Indexes(resp.body.rawFeeds) :
      /\ resp.body.rawFeeds[i].amount > 0
      /\ resp.body.rawFeeds[i].hour \in 0..23

C9_StructuralErrorIs400 ==
  (DataRead /\ StructuralError(Stored)) =>
    /\ resp.status = 400
    /\ "details" \in DOMAIN resp.body

StructuralMessages ==
  {"Failed to analyze CSV: CSV data appears to be empty or invalid",
   "Failed to analyze CSV: Required columns not found in CSV data"}

\* C9 as amended: when the stored table has a structural error, /data is
\* answered with the server-error status 500, the error "Error processing
\* data" and the descriptive message of the structural error as its details.
C9_StructuralErrorIs500 ==
  (DataRead /\ StructuralError(Stored)) =>
    /\ resp.status = 500
    /\ resp.body.error = "Error processing data"
    /\ resp.body.details \in StructuralMessages
    /\ Len(Stored) < 2 <=>
         resp.body.details = "Failed to analyze CSV: CSV data appears to be empty or invalid"

\* a /data response for a table of two lines whose header lacks a column
C9_Witness ==
  /\ DataRead
  /\ Len(Stored) >= 2
  /\ StructuralError(Stored)

IsPlaceholder(body) ==
  /\ {"weekSummary", "dayComparison", "milestones"} \subseteq DOMAIN body
  /\ body.dayComparison = ""
  /\ body.milestones = ""

FallbackText == "Unable to generate insights at this time."

DatedFeeds(feeds) == \A i \in Indexes(feeds) : DateValue(feeds[i].date) # NaN

\* ascending calendar date, then wall-clock time (where both Events have one)
Chronological(feeds) ==
  \A i, j \in Indexes(feeds) :
    i < j =>
      /\ DateValue(feeds[i].date) <= DateValue(feeds[j].date)
      /\ ( /\ DateValue(feeds[i].date) = DateValue(feeds[j].date)
           /\ ParseClock(feeds[i].time) # NaN
           /\ ParseClock(feeds[j].time) # NaN )
         => ParseClock(feeds[i].time) <= ParseClock(feeds[j].time)

\* C11: whenever the analysis returns a result (all of whose Events have a
\* calendar date), rawFeeds is in chronological order whatever the order of
\* the rows, dateRange.start is the earliest Event date and the day of the
\* first entry of allStats, and dateRange.end is the latest Event date and
\* the day of the last entry of allStats.
C11_Chronological ==
  (DataOK /\ DatedFeeds(resp.body.rawFeeds)) =>
    LET feeds == resp.body.rawFeeds
        stats == resp.body.allStats
        range == resp.body.overallStats.dateRange
    IN  /\ Chronological(feeds)
        /\ \A i \in Indexes(feeds) :
             /\ DateValue(range.start) <= DateValue(feeds[i].date)
             /\ DateValue(feeds[i].date) <= DateValue(range.end)
        /\ DateValue(range.start) = DateValue(stats[1].date)
        /\ DateValue(range.end) = DateValue(stats[Len(stats)].date)

\* a number of the host that is neither NaN nor Infinity
Finite(x) == x # NaN /\ x # Infinity

\* C12: no non-finite percentChange reaches the output: in recentTrend and in
\* every entry of trendHistory the older window's average is strictly
\* positive and the percent change is a finite number.
C12_FinitePercentChange ==
  DataOK =>
    /\ resp.body.recentTrend # Null =>
         /\ resp.body.recentTrend[1].olderAverage > 0
         /\ Finite(resp.body.recentTrend[1].percentChange)
    /\ \A k \in Indexes(resp.body.trendHistory) :
         /\ resp.body.trendHistory[k].olderAvg > 0
         /\ Finite(resp.body.trendHistory[k].value)

\* C13: the two trend computations agree: whenever allStats has at least 14
\* entries, the last entry of trendHistory carries the last date of allStats,
\* and its value, recentAvg and olderAvg are the percentChange, recentAverage
\* and olderAverage of recentTrend.
C13_TrendsAgree ==
  (DataOK /\ Len(resp.body.allStats) >= 14) =>
    LET stats   == resp.body.allStats
        history == resp.body.trendHistory
        trend   == resp.body.recentTrend
    IN  /\ history # <<>>
        /\ trend # Null
        /\ history[Len(history)].date = stats[Len(stats)].date
        /\ history[Len(history)].value = trend[1].percentChange
        /\ history[Len(history)].recentAvg = trend[1].recentAverage
        /\ history[Len(history)].olderAvg = trend[1].olderAverage

\* fifteen days whose older window is not flat and whose trend is not zero
C13_Witness ==
  /\ DataOK
  /\ Len(resp.body.allStats) = 15
  /\ resp.body.recentTrend # Null
  /\ resp.body.recentTrend[1].percentChange # 0
  /\ resp.body.recentTrend[1].olderAverage # SeriesBase * 10

\* the bucket as the data API would see it were the uploaded file the one it reads
AsUploaded == [bucket EXCEPT ![DataKey] = bucket[UploadKey]]

\* C14: once the upload worker has accepted and stored a file (and nothing
\* has been stored in the bucket since), a /data, /data/filemeta or /insights
\* request reads and analyzes the uploaded text: its response is the one the
\* handler gives for that text.
C14_UploadThenRead ==
  latest = UploadKey =>
    /\ resp.route = "data" => resp \in handleDataRequest(AsUploaded)
    /\ resp.route = "filemeta" =>
         resp = handleFileMetaRequest(env.R2_BUCKET, AsUploaded)
    /\ resp.route = "insights" =>
         [resp |-> resp, ai |-> ai] \in handleInsightsRequest(env, AsUploaded)

====
